---- MODULE Spec2Model ----
(***************************************************************************)
(* A model of ppt_maker: the content cropper (autocrop_image), the         *)
(* fit-to-box placement and the slide template of the Flask application    *)
(* (app.py) and of the standalone script (utils/generate_ppt.py).          *)
(*                                                                         *)
(* Four specifications share the module:                                   *)
(*   SpecCrop    one call of app.py's autocrop_image on a drawn file       *)
(*   SpecFit     the size computation of add_question_slide                *)
(*   Spec        a POST /create request: create_ppt_route and              *)
(*               create_presentation of app.py                             *)
(*   SpecScript  one run of utils/generate_ppt.py                          *)
(***************************************************************************)
EXTENDS Integers, Sequences, FiniteSets

VARIABLES
    crop_pc,        \* SpecCrop: "call" before autocrop_image, "done" after
    crop_in,        \* SpecCrop: the file at input_path
    crop_env,       \* SpecCrop: how writes to output_path behave
    crop_res,       \* SpecCrop: what the call left behind
    fit_pc,         \* SpecFit: "call" before the size computation, "done" after
    fit_in,         \* SpecFit: im.size, <<img_width_px, img_height_px>>
    fit_res,        \* SpecFit: the position and size computed
    pc,             \* Spec, SpecScript: where the request (the run) stands
    request,        \* Spec: request.files; SpecScript: the working directory
    question_paths, \* question_paths (app.py), original_file_paths (script)
    bg_path,        \* the file at bg_path (app.py), at BACKGROUND_IMAGE (script)
    cropped_image_paths, \* the names cropped_q<n>.png written so far, in order
    cropped_folder, \* the cropped folder: name n -> the file cropped_q<n>.png
    slides,         \* prs.slides
    output,         \* the file prs.save wrote, if any
    outcome         \* how the request (the run) ended

crop_vars == <<crop_pc, crop_in, crop_env, crop_res>>

fit_vars == <<fit_pc, fit_in, fit_res>>

deck_vars == <<pc, request, question_paths, bg_path, cropped_image_paths,
               cropped_folder, slides, output, outcome>>

vars == <<crop_vars, fit_vars, deck_vars>>

(***************************************************************************)
(* Bounds of the model.                                                    *)
(***************************************************************************)
\* Largest image height and width (pixels) of the cropper's inputs.
MaxDim == 42

\* Largest pixel width and height drawn for the size computation.
MaxPx == 17

\* Largest number of question uploads of a request, and of *.png files in
\* the script's folder.
MaxQ == 3

(***************************************************************************)
(* Small helpers.                                                          *)
(***************************************************************************)
Max(a, b) == IF a >= b THEN a ELSE b

Min(a, b) == IF a <= b THEN a ELSE b

\* numpy's min and max along one axis of coords.
MinOf(S) == CHOOSE m \in S : \A n \in S : m <= n

MaxOf(S) == CHOOSE m \in S : \A n \in S : m >= n

(***************************************************************************)
(* Files.  A file is what a path holds: its kind says what a decoder       *)
(* makes of it, h and w are the pixel height and width of a decodable      *)
(* image, mask is the set of <<row, col>> where sobel(grayscale) exceeds   *)
(* the threshold, id names the upload it came from.                        *)
(*   "missing"  no file at the path                                        *)
(*   "corrupt"  a file (possibly empty) that no decoder reads              *)
(*   "gray2d"   a single-channel image: io.imread returns a 2-D array      *)
(*   "graya"    a two-channel image (grey + alpha)                         *)
(*   "rgb"      a three-channel image                                      *)
(*   "rgba"     a four-channel image                                       *)
(***************************************************************************)
File(kind, h, w, mask, id) ==
    [kind |-> kind, h |-> h, w |-> w, mask |-> mask, id |-> id]

NoFile == File("missing", 0, 0, {}, 0)

\* The value of y0, x0, y1, x1 while no box has been computed.
NoBox == [y0 |-> 0, x0 |-> 0, y1 |-> 0, x1 |-> 0]

\* The padding literal of app.py's autocrop_image.
padding_app == 20

\* The rows (or columns) a Python slice [lo:hi] selects on an axis of length n:
\* a negative index counts from the end, and both ends are clipped to the axis.
SliceIndex(i, n) == IF i < 0 THEN Max(0, i + n) ELSE Min(i, n)

Slice(lo, hi, n) == {r \in 0..(n - 1) : SliceIndex(lo, n) <= r /\ r < SliceIndex(hi, n)}

\* A mutant of CropBox: the lower clamp max(0, .) is dropped.
CropBoxNoLowClamp(mask, h, w, padding) ==
    LET rows == {c[1] : c \in mask}
        cols == {c[2] : c \in mask}
    IN  [y0 |-> MinOf(rows) - padding,
         x0 |-> MinOf(cols) - padding,
         y1 |-> Min(h, MaxOf(rows) + padding),
         x1 |-> Min(w, MaxOf(cols) + padding)]

\* y0, x0, y1, x1 of autocrop_image after padding and clamping.
CropBox(mask, h, w, padding) ==
    LET rows == {c[1] : c \in mask}
        cols == {c[2] : c \in mask}
    IN  [y0 |-> Max(0, MinOf(rows) - padding),
         x0 |-> Max(0, MinOf(cols) - padding),
         y1 |-> Min(h, MaxOf(rows) + padding),
         x1 |-> Min(w, MaxOf(cols) + padding)]

\* io.imread, the channel test, rgb2gray and sobel succeed.
Decodes(file) == file.kind \in {"rgb", "rgba"}

\* shutil.copy(input_path, output_path) raises: the source is missing or the
\* destination cannot be written.
CopyRaises(file, env) == file.kind = "missing" \/ env = "io_error"

\* What shutil.copy leaves behind when it is the last statement executed.
CopyOriginal(file, env) ==
    IF CopyRaises(file, env)
    THEN [raised |-> TRUE, how |-> "none", dest |-> NoFile, boxed |-> FALSE, box |-> NoBox]
    ELSE [raised |-> FALSE, how |-> "copy", dest |-> file, boxed |-> FALSE, box |-> NoBox]

\* image[y0:y1, x0:x1] written by io.imsave: a three-channel image of the
\* sliced rows and columns, its mask in the coordinates of the crop.
CroppedFile(file, box) ==
    LET rs == Slice(box.y0, box.y1, file.h)
        cs == Slice(box.x0, box.x1, file.w)
    IN  File("rgb", Cardinality(rs), Cardinality(cs),
             {<<c[1] - SliceIndex(box.y0, file.h), c[2] - SliceIndex(box.x0, file.w)>> :
                 c \in {m \in file.mask : m[1] \in rs /\ m[2] \in cs}},
             file.id)

\* autocrop_image(input_path, output_path): the whole call.  env is how the
\* destination behaves: "ok", "encode_error" (io.imsave raises, the path can
\* still be written) or "io_error" (no write to the path succeeds).
autocrop_image(file, env, padding) ==
    IF ~Decodes(file)
    THEN \* the except branch: print, then shutil.copy outside any try
         CopyOriginal(file, env)
    ELSE IF file.mask = {}
    THEN \* coords.size == 0: shutil.copy inside the try; if it raises, the
         \* except branch copies again
         CopyOriginal(file, env)
    ELSE LET box == CropBox(file.mask, file.h, file.w, padding)
         IN  IF env = "ok"
             THEN [raised |-> FALSE, how |-> "crop",
                   dest |-> CroppedFile(file, box), boxed |-> TRUE, box |-> box]
             ELSE \* io.imsave raised: the except branch
                  [CopyOriginal(file, env) EXCEPT !.boxed = TRUE, !.box = box]

(***************************************************************************)
(* Placement of the question image (add_question_slide).  Lengths are in   *)
(* EMU, the unit of pptx.util.Inches; a length that a division produced is *)
(* kept exact as a fraction n/d.                                           *)
(***************************************************************************)
\* EMU in a tenth of an inch: pptx.util.Inches(x) is x * 914400 EMU.
EmuPerTenthInch == 91440

\* Inches(t / 10).
InchesTenths(t) == t * EmuPerTenthInch

\* max_width, max_height = Inches(5.0), Inches(7.0)
max_width == InchesTenths(50)

max_height == InchesTenths(70)

\* Inches(0.5) and Inches(1.5), the offsets of the content region.
region_left == InchesTenths(5)

region_top == InchesTenths(15)

\* The value of the placement while none has been computed, and when the
\* try block raised.
NoPlacement ==
    [raised |-> FALSE, placed |-> FALSE, constrained |-> "none",
     wn |-> 0, wd |-> 1, hn |-> 0, hd |-> 1,
     leftn |-> 0, leftd |-> 1, topn |-> 0, topd |-> 1]

\* A mutant of FitToBox: the comparison of the branch is inverted.
FitToBoxInverted(w, h) ==
    IF h = 0
    THEN [NoPlacement EXCEPT !.raised = TRUE]
    ELSE IF max_height * w < max_width * h
    THEN [raised |-> FALSE, placed |-> TRUE, constrained |-> "width",
          wn |-> max_width, wd |-> 1, hn |-> max_width * h, hd |-> w,
          leftn |-> region_left, leftd |-> 1,
          topn |-> 2 * region_top * w + max_height * w - max_width * h, topd |-> 2 * w]
    ELSE [raised |-> FALSE, placed |-> TRUE, constrained |-> "height",
          wn |-> max_height * w, wd |-> h, hn |-> max_height, hd |-> 1,
          leftn |-> 2 * region_left * h + max_width * h - max_height * w, leftd |-> 2 * h,
          topn |-> region_top, topd |-> 1]

\* new_width, new_height, left and top for an image of w x h pixels:
\*   aspect_ratio = w / h                       (ZeroDivisionError when h = 0)
\*   max_height * aspect_ratio > max_width      <=>  max_height * w > max_width * h
\*   width-constrained:  max_width, max_width / aspect_ratio = max_width * h / w
\*   height-constrained: max_height * aspect_ratio = max_height * w / h, max_height
\*   left = Inches(0.5) + (max_width - new_width) / 2
\*   top  = Inches(1.5) + (max_height - new_height) / 2
\* (max_width / aspect_ratio with aspect_ratio = 0 is not reached: w = 0 takes
\* the height-constrained branch.)
\* Python computes these in binary floating point; the fractions here are the
\* exact values, and for the pixel sizes drawn the float comparison takes the
\* same branch as the exact one.
FitToBox(w, h) ==
    IF h = 0
    THEN [NoPlacement EXCEPT !.raised = TRUE]
    ELSE IF max_height * w > max_width * h
    THEN [raised |-> FALSE, placed |-> TRUE, constrained |-> "width",
          wn |-> max_width, wd |-> 1, hn |-> max_width * h, hd |-> w,
          leftn |-> region_left, leftd |-> 1,
          topn |-> 2 * region_top * w + max_height * w - max_width * h, topd |-> 2 * w]
    ELSE [raised |-> FALSE, placed |-> TRUE, constrained |-> "height",
          wn |-> max_height * w, wd |-> h, hn |-> max_height, hd |-> 1,
          leftn |-> 2 * region_left * h + max_width * h - max_height * w, leftd |-> 2 * h,
          topn |-> region_top, topd |-> 1]

(***************************************************************************)
(* Slides.  A slide is its shape tree (spTree): the two group-property     *)
(* elements every slide starts with, then the shapes in drawing order,     *)
(* bottom-most first.                                                      *)
(***************************************************************************)
\* A title is a literal text, the number formatted into it (0: none) and the
\* literal text after the number.
TitleSuffixed(text, num, suffix) == [text |-> text, num |-> num, suffix |-> suffix]

Title(text, num) == TitleSuffixed(text, num, "")

NoTitle == Title("", 0)

Element(tag, role, image, place, text) ==
    [tag |-> tag, role |-> role, image |-> image, place |-> place, text |-> text]

\* A slide just made by prs.slides.add_slide(blank_slide_layout): layout 6
\* has no placeholder to clone.
BlankTree ==
    <<Element("nvGrpSpPr", "group", NoFile, NoPlacement, NoTitle),
      Element("grpSpPr", "group", NoFile, NoPlacement, NoTitle)>>

\* _spTree.remove(element)
TreeRemove(tree, el) == SelectSeq(tree, LAMBDA e : e # el)

\* _spTree.insert(index, element): a list insert at a 0-based index.
TreeInsert(tree, index, el) ==
    LET k == Min(index, Len(tree))
    IN  SubSeq(tree, 1, k) \o <<el>> \o SubSeq(tree, k + 1, Len(tree))

\* A picture or a PIL image can be made of the file.
Openable(file) == file.kind \in {"gray2d", "graya", "rgb", "rgba"}

BackgroundPic(bg) == Element("pic", "background", bg, NoPlacement, NoTitle)

TitleBox(title_text) == Element("sp", "title", NoFile, NoPlacement, title_text)

\* A mutant of add_standard_slide: the text box is added first and the
\* background picture is left where add_picture put it.
add_standard_slide_bg_on_top(title_text, bg) ==
    IF ~Openable(bg)
    THEN [raised |-> TRUE, spTree |-> BlankTree]
    ELSE [raised |-> FALSE,
          spTree |-> Append(Append(BlankTree, TitleBox(title_text)), BackgroundPic(bg))]

\* add_standard_slide(title_text): the new slide, or raised when add_picture
\* cannot read the background (the blank slide has been added by then).
add_standard_slide(title_text, bg) ==
    IF ~Openable(bg)
    THEN [raised |-> TRUE, spTree |-> BlankTree]
    ELSE LET pic == BackgroundPic(bg)
             added == Append(BlankTree, pic)
             removed == TreeRemove(added, pic)
             inserted == TreeInsert(removed, 2, pic)
         IN  [raised |-> FALSE, spTree |-> Append(inserted, TitleBox(title_text))]

\* The try block of add_question_slide: Image.open, im.size, the size
\* computation and add_picture.
Placement(image) ==
    IF ~Openable(image)
    THEN [NoPlacement EXCEPT !.raised = TRUE]
    ELSE FitToBox(image.w, image.h)

\* A mutant of add_question_slide: no except branch, a failure of the try
\* block's statements propagates.
add_question_slide_no_except(question_num, image, bg) ==
    LET slide == add_standard_slide(Title("Question", question_num), bg)
        place == Placement(image)
    IN  IF slide.raised
        THEN slide
        ELSE IF place.raised
        THEN [raised |-> TRUE, spTree |-> slide.spTree]
        ELSE [raised |-> FALSE,
              spTree |-> Append(slide.spTree,
                                Element("pic", "content", image, place, NoTitle))]

\* add_question_slide(question_num, image_path); image is the file at
\* image_path.
add_question_slide(question_num, image, bg) ==
    LET slide == add_standard_slide(Title("Question", question_num), bg)
        place == Placement(image)
    IN  IF slide.raised
        THEN slide
        ELSE IF place.raised
        THEN \* except: print, the slide stays as it is
             slide
        ELSE [raised |-> FALSE,
              spTree |-> Append(slide.spTree,
                                Element("pic", "content", image, place, NoTitle))]

\* Adds the slides made in turn by the calls to prs.slides, up to and
\* including the first call that raises.
RECURSIVE AddSlides(_, _)
AddSlides(deck, made) ==
    IF made = <<>>
    THEN [raised |-> FALSE, slides |-> deck]
    ELSE IF Head(made).raised
    THEN [raised |-> TRUE, slides |-> Append(deck, Head(made).spTree)]
    ELSE AddSlides(Append(deck, Head(made).spTree), Tail(made))

(***************************************************************************)
(* The request handler and create_presentation of app.py.                  *)
(***************************************************************************)
\* A file name is the sequence of its parts between dots: "q1.PNG" is
\* <<"q1", "PNG">>, "notes" is <<"notes">>, the empty name is <<>>.
HasDot(filename) == Len(filename) >= 2

\* filename.rsplit('.', 1)[1]
Extension(filename) == filename[Len(filename)]

\* str.lower() on the extensions drawn.
Lower(str) ==
    CASE str = "PNG" -> "png"
      [] str = "JPG" -> "jpg"
      [] OTHER -> str

ALLOWED_EXTENSIONS == {"png", "jpg", "jpeg"}

allowed_file(filename) ==
    HasDot(filename) /\ Lower(Extension(filename)) \in ALLOWED_EXTENSIONS

Upload(filename, content) == [filename |-> filename, content |-> content]

\* No file part under the key.
NoUpload == Upload(<<>>, NoFile)

\* The file a saved upload leaves at its unique path; id is the position of
\* the upload in the request (the uuid of the path).
Saved(upload, id) == [upload.content EXCEPT !.id = id]

\* The loop of create_ppt_route over question_uploads: the uploads with a
\* name and an allowed extension, saved, in order.
RECURSIVE SaveQuestions(_, _)
SaveQuestions(uploads, k) ==
    IF k > Len(uploads)
    THEN <<>>
    ELSE IF uploads[k].filename # <<>> /\ allowed_file(uploads[k].filename)
    THEN <<Saved(uploads[k], k)>> \o SaveQuestions(uploads, k + 1)
    ELSE SaveQuestions(uploads, k + 1)

\* A mutant of cropped_file_name: the question number is left out.
cropped_file_name_constant(question_num) == 1

\* f'cropped_q{question_num}.png', named by its number.
cropped_file_name(question_num) == question_num

EmptyFolder == [n \in 1..MaxQ |-> NoFile]

\* A mutant of question_pair: the solution slide is left out.
question_pair_no_solution(question_num, image, bg) ==
    <<add_question_slide(question_num, image, bg)>>

\* The body of create_presentation's loop over cropped_image_paths.
question_pair(question_num, image, bg) ==
    <<add_question_slide(question_num, image, bg),
      add_standard_slide(Title("Solution for Question", question_num), bg)>>

\* The text of a slide's title box.
TitleOf(tree) ==
    LET boxes == SelectSeq(tree, LAMBDA e : e.role = "title")
    IN  IF boxes = <<>> THEN NoTitle ELSE boxes[1].text

Titles(deck) == [k \in 1..Len(deck) |-> TitleOf(deck[k])]

\* The iterations of the loop over the questions that have added slides.
QuestionsAdded(deck) ==
    Cardinality({k \in 1..Len(deck) : TitleOf(deck[k]).text = "Question"})

\* The padding literal of the script's autocrop_image.
padding_script == 15

\* A mutant of script_question_slides: one solution slide, as in app.py.
script_question_slides_one_solution(question_num, image, bg) ==
    <<add_question_slide(question_num, image, bg),
      add_standard_slide(Title("Solution for Question", question_num), bg)>>

\* The body of the script's loop over the questions.
script_question_slides(question_num, image, bg) ==
    <<add_question_slide(question_num, image, bg),
      add_standard_slide(TitleSuffixed("Solution for Question", question_num, " (Part 1)"), bg),
      add_standard_slide(TitleSuffixed("Solution for Question", question_num, " (Part 2)"), bg)>>

TitleSlideText == Title("Advanced Problems in Functions and Calculus\n\nA Practice Set", 0)

NoOutput == [saved |-> FALSE, slides |-> <<>>]

(***************************************************************************)
(* What each specification leaves alone.                                   *)
(***************************************************************************)
CropIdle == [raised |-> FALSE, how |-> "none", dest |-> NoFile, boxed |-> FALSE, box |-> NoBox]

CropOff ==
    /\ crop_pc = "off"
    /\ crop_in = NoFile
    /\ crop_env = "ok"
    /\ crop_res = CropIdle

FitOff ==
    /\ fit_pc = "off"
    /\ fit_in = <<0, 0>>
    /\ fit_res = NoPlacement

DeckOff ==
    /\ pc = "off"
    /\ request = [questions |-> <<>>, background |-> NoUpload]
    /\ question_paths = <<>>
    /\ bg_path = NoFile
    /\ cropped_image_paths = <<>>
    /\ cropped_folder = EmptyFolder
    /\ slides = <<>>
    /\ output = NoOutput
    /\ outcome = "none"

(***************************************************************************)
(* SpecCrop: one call of autocrop_image.                                   *)
(***************************************************************************)
\* Heights and widths drawn: the smallest, those around the padding and
\* twice the padding, and the largest.
Dims == {1, 2, padding_app, padding_app + 1, 2 * padding_app, 2 * padding_app + 1, MaxDim}

\* Coordinates drawn on an axis of length n: both ends, their neighbours,
\* the middle and the places one padding away from each end.
Pos(n) == {0, 1, n \div 2, n - 2, n - 1, padding_app, n - 1 - padding_app} \cap (0..(n - 1))

\* Content masks drawn: empty, or the pixels p and q (one pixel when p = q);
\* every bounding box with corners at drawn coordinates is the box of one.
Masks(h, w) == {{}} \cup {{p, q} : p \in Pos(h) \X Pos(w), q \in Pos(h) \X Pos(w)}

CropInputs ==
    {File(k, 0, 0, {}, 0) : k \in {"missing", "corrupt"}}
    \cup UNION {UNION {{File(k, h, w, m, 0) : m \in Masks(h, w), k \in {"rgb", "rgba"}}
                       \cup {File(k, h, w, {}, 0) : k \in {"gray2d", "graya"}} :
                          w \in Dims} : h \in Dims}

CropEnvs == {"ok", "encode_error", "io_error"}

InitCrop ==
    /\ crop_pc = "call"
    /\ crop_in \in CropInputs
    /\ crop_env \in CropEnvs
    /\ crop_res = CropIdle
    /\ FitOff
    /\ DeckOff

Autocrop ==
    /\ crop_pc = "call"
    /\ crop_res' = autocrop_image(crop_in, crop_env, padding_app)
    /\ crop_pc' = "done"
    /\ UNCHANGED <<crop_in, crop_env, fit_vars, deck_vars>>

NextCrop == Autocrop

SpecCrop == InitCrop /\ [][NextCrop]_vars

(***************************************************************************)
(* Claims about autocrop_image, checked under SpecCrop.                    *)
(***************************************************************************)
\* The call fell back to the except branch or to the no-content copy.
CropFellBack ==
    \/ ~Decodes(crop_in)
    \/ crop_in.mask = {}
    \/ crop_env # "ok"

\* C2: autocrop_image never raises past its boundary: for every input (a
\* corrupt, empty, unreadable or missing file, an unexpected channel count, a
\* failure while writing the cropped result) the call returns normally and the
\* destination holds a copy of the original input.
C2_AutocropNeverRaises ==
    crop_pc = "done" =>
        /\ ~crop_res.raised
        /\ CropFellBack => (crop_res.how = "copy" /\ crop_res.dest = crop_in)

\* The rows and columns of the input that the written crop holds.
CroppedRows == Slice(crop_res.box.y0, crop_res.box.y1, crop_in.h)

CroppedCols == Slice(crop_res.box.x0, crop_res.box.x1, crop_in.w)

ContentRows == {c[1] : c \in crop_in.mask}

ContentCols == {c[2] : c \in crop_in.mask}

\* C5: with a non-empty content mask the cropped region is the bounding box of
\* the content expanded by 20 pixels on all four sides and clamped to the
\* image: exactly the rows and columns within 20 pixels of the content extent
\* that lie inside the image.
C5_CropIsExtentPaddedBy20 ==
    (crop_pc = "done" /\ crop_res.how = "crop") =>
        /\ CroppedRows = {r \in 0..(crop_in.h - 1) :
                             MinOf(ContentRows) - 20 <= r /\ r <= MaxOf(ContentRows) + 20}
        /\ CroppedCols = {c \in 0..(crop_in.w - 1) :
                             MinOf(ContentCols) - 20 <= c /\ c <= MaxOf(ContentCols) + 20}

\* C6: whenever a crop box is computed, after padding and clamping
\* 0 <= top < bottom <= height and 0 <= left < right <= width: no coordinate
\* is negative and the crop is never empty.
C6_BoxWithinImageAndNonEmpty ==
    (crop_pc = "done" /\ crop_res.boxed) =>
        /\ 0 <= crop_res.box.y0 /\ crop_res.box.y0 < crop_res.box.y1
        /\ crop_res.box.y1 <= crop_in.h
        /\ 0 <= crop_res.box.x0 /\ crop_res.box.x0 < crop_res.box.x1
        /\ crop_res.box.x1 <= crop_in.w
        /\ crop_res.how = "crop" => (crop_res.dest.h > 0 /\ crop_res.dest.w > 0)

\* C6 witness: a box was computed for content touching pixel (0,0) and the
\* last row and column of an image larger than the padding.
C6_Witness ==
    /\ crop_pc = "done" /\ crop_res.boxed /\ crop_res.how = "crop"
    /\ <<0, 0>> \in crop_in.mask
    /\ <<crop_in.h - 1, crop_in.w - 1>> \in crop_in.mask
    /\ crop_in.h > padding_app /\ crop_in.w > padding_app

(***************************************************************************)
(* SpecFit: the size computation of add_question_slide on drawn pixel      *)
(* sizes.                                                                  *)
(***************************************************************************)
InitFit ==
    /\ fit_pc = "call"
    /\ fit_in \in (0..MaxPx) \X (0..MaxPx)
    /\ fit_res = NoPlacement
    /\ CropOff
    /\ DeckOff

Fit ==
    /\ fit_pc = "call"
    /\ fit_res' = FitToBox(fit_in[1], fit_in[2])
    /\ fit_pc' = "done"
    /\ UNCHANGED <<fit_in, crop_vars, deck_vars>>

NextFit == Fit

SpecFit == InitFit /\ [][NextFit]_vars

\* C7: for an image of positive width w and height h the size chosen for the
\* 5.0 x 7.0 region exceeds it in neither dimension, keeps the ratio w:h and
\* equals the region in at least one dimension; it is width-constrained
\* (5.0 wide, 5.0*h/w high) exactly when 7*w/h > 5 and height-constrained
\* (7.0 high, 7.0*w/h wide) otherwise; 2:1 gives 5.0 x 2.5 and 1:2 gives
\* 3.5 x 7.0.
C7_FitToBox ==
    LET w == fit_in[1]
        h == fit_in[2]
        r == fit_res
        five == 5 * 914400
        seven == 7 * 914400
    IN  (fit_pc = "done" /\ w > 0 /\ h > 0) =>
            /\ r.placed /\ ~r.raised
            /\ r.wn <= five * r.wd
            /\ r.hn <= seven * r.hd
            /\ r.wn * r.hd * h = r.hn * r.wd * w
            /\ (r.wn = five * r.wd \/ r.hn = seven * r.hd)
            /\ IF 7 * w > 5 * h
               THEN r.constrained = "width" /\ r.wn = five * r.wd
                    /\ r.hn * w = five * h * r.hd
               ELSE r.constrained = "height" /\ r.hn = seven * r.hd
                    /\ r.wn * h = seven * w * r.wd
            /\ (w = 2 * h) => (r.wn = 4572000 * r.wd /\ r.hn = 2286000 * r.hd)
            /\ (h = 2 * w) => (r.wn = 3200400 * r.wd /\ r.hn = 6400800 * r.hd)

\* C7 witness: a 2:1 image has been sized, width-constrained.
C7_Witness ==
    /\ fit_pc = "done"
    /\ fit_in = <<2, 1>>
    /\ fit_res.constrained = "width"

(***************************************************************************)
(* Spec: one POST /create request of app.py.                               *)
(***************************************************************************)
\* The images uploaded: a wide one and a tall one (four channels) with
\* content, one without content, a single-channel one, and a file that is
\* no image.
WideImage == File("rgb", 30, 60, {<<5, 5>>, <<8, 50>>}, 0)

TallImage == File("rgba", 60, 24, {<<25, 10>>, <<30, 12>>}, 0)

BlankImage == File("rgb", 10, 10, {}, 0)

GrayImage == File("gray2d", 8, 12, {}, 0)

CorruptFile == File("corrupt", 0, 0, {}, 0)

Catalogue == {WideImage, TallImage, BlankImage, GrayImage, CorruptFile}

QuestionUploads ==
    {Upload(<<"q", "PNG">>, c) : c \in Catalogue}
    \cup {Upload(<<>>, CorruptFile), Upload(<<"notes", "txt">>, CorruptFile)}

BackgroundUploads ==
    {NoUpload, Upload(<<>>, CorruptFile), Upload(<<"bg">>, WideImage),
     Upload(<<"bg", "jpg">>, WideImage), Upload(<<"bg", "jpg">>, CorruptFile)}

SeqsUpTo(S, n) == UNION {[1..k -> S] : k \in 0..n}

InitDeck ==
    /\ question_paths = <<>>
    /\ bg_path = NoFile
    /\ cropped_image_paths = <<>>
    /\ cropped_folder = EmptyFolder
    /\ slides = <<>>
    /\ output = NoOutput
    /\ outcome = "none"

Init ==
    /\ pc = "request"
    /\ request \in {[questions |-> qs, background |-> b] :
                       qs \in SeqsUpTo(QuestionUploads, MaxQ), b \in BackgroundUploads}
    /\ InitDeck
    /\ CropOff
    /\ FitOff

\* create_ppt_route up to the call of create_presentation: the two early
\* returns, the saving of the uploads, the split of the background's name.
ReceiveRequest ==
    /\ pc = "request"
    /\ IF request.questions = <<>> \/ request.background = NoUpload
       THEN /\ outcome' = "400"
            /\ pc' = "done"
            /\ UNCHANGED <<question_paths, bg_path>>
       ELSE IF request.questions = <<>> \/ request.background.filename = <<>>
       THEN /\ outcome' = "400"
            /\ pc' = "done"
            /\ UNCHANGED <<question_paths, bg_path>>
       ELSE IF ~HasDot(request.background.filename)
       THEN \* rsplit('.', 1)[1] raises IndexError
            /\ question_paths' = SaveQuestions(request.questions, 1)
            /\ outcome' = "500"
            /\ pc' = "done"
            /\ UNCHANGED bg_path
       ELSE /\ question_paths' = SaveQuestions(request.questions, 1)
            /\ bg_path' = Saved(request.background, Len(request.questions) + 1)
            /\ pc' = "crop"
            /\ UNCHANGED outcome
    /\ UNCHANGED <<request, cropped_image_paths, cropped_folder, slides, output>>
    /\ UNCHANGED <<crop_vars, fit_vars>>

\* One iteration of create_presentation's loop over question_files.
CropStep ==
    /\ pc = "crop"
    /\ Len(cropped_image_paths) < Len(question_paths)
    /\ \E env \in CropEnvs :
          LET question_num == Len(cropped_image_paths) + 1
              name == cropped_file_name(question_num)
              res == autocrop_image(question_paths[question_num], env, padding_app)
          IN  IF res.raised
              THEN /\ outcome' = "500"
                   /\ pc' = "done"
                   /\ UNCHANGED <<cropped_image_paths, cropped_folder>>
              ELSE /\ cropped_folder' = [cropped_folder EXCEPT ![name] = res.dest]
                   /\ cropped_image_paths' = Append(cropped_image_paths, name)
                   /\ UNCHANGED <<outcome, pc>>
    /\ UNCHANGED <<request, question_paths, bg_path, slides, output>>
    /\ UNCHANGED <<crop_vars, fit_vars>>

\* The slides `made` are added; the request ends with a 500 when one raises.
AddToDeck(made, next_pc) ==
    LET r == AddSlides(slides, made)
    IN  /\ slides' = r.slides
        /\ IF r.raised
           THEN outcome' = "500" /\ pc' = "done"
           ELSE pc' = next_pc /\ UNCHANGED outcome

\* Presentation() and the two introductory slides.
AddIntroSlides ==
    /\ pc = "crop"
    /\ Len(cropped_image_paths) = Len(question_paths)
    /\ AddToDeck(<<add_standard_slide(TitleSlideText, bg_path),
                   add_standard_slide(Title("Welcome & Objectives", 0), bg_path)>>,
                 "questions")
    /\ UNCHANGED <<request, question_paths, bg_path, cropped_image_paths,
                   cropped_folder, output>>
    /\ UNCHANGED <<crop_vars, fit_vars>>

\* One iteration of the loop over cropped_image_paths.
AddQuestionSlides ==
    /\ pc = "questions"
    /\ QuestionsAdded(slides) < Len(cropped_image_paths)
    /\ LET question_num == QuestionsAdded(slides) + 1
           cropped_img_path == cropped_image_paths[question_num]
       IN  AddToDeck(question_pair(question_num, cropped_folder[cropped_img_path], bg_path),
                     "questions")
    /\ UNCHANGED <<request, question_paths, bg_path, cropped_image_paths,
                   cropped_folder, output>>
    /\ UNCHANGED <<crop_vars, fit_vars>>

\* The closing slide, prs.save and the removal of the cropped folder.
AddClosingAndSave ==
    /\ pc = "questions"
    /\ QuestionsAdded(slides) = Len(cropped_image_paths)
    /\ LET r == AddSlides(slides, <<add_standard_slide(Title("Thank You & Q/A", 0), bg_path)>>)
       IN  /\ slides' = r.slides
           /\ IF r.raised
              THEN /\ outcome' = "500"
                   /\ pc' = "done"
                   /\ UNCHANGED <<output, cropped_folder>>
              ELSE /\ output' = [saved |-> TRUE, slides |-> r.slides]
                   /\ cropped_folder' = EmptyFolder
                   /\ pc' = "respond"
                   /\ UNCHANGED outcome
    /\ UNCHANGED <<request, question_paths, bg_path, cropped_image_paths>>
    /\ UNCHANGED <<crop_vars, fit_vars>>

\* create_ppt_route after create_presentation returned: the temporary
\* uploads are removed and the result page is rendered.
Respond ==
    /\ pc = "respond"
    /\ outcome' = "result"
    /\ pc' = "done"
    /\ UNCHANGED <<request, question_paths, bg_path, cropped_image_paths,
                   cropped_folder, slides, output>>
    /\ UNCHANGED <<crop_vars, fit_vars>>

Next ==
    \/ ReceiveRequest
    \/ CropStep
    \/ AddIntroSlides
    \/ AddQuestionSlides
    \/ AddClosingAndSave
    \/ Respond

Spec == Init /\ [][Next]_vars

(***************************************************************************)
(* Claims about the request, checked under Spec.                           *)
(***************************************************************************)
\* The titles of the template for n questions, in order.
ExpectedTitles(n) ==
    [k \in 1..(2 * n + 3) |->
        IF k = 1 THEN Title("Advanced Problems in Functions and Calculus\n\nA Practice Set", 0)
        ELSE IF k = 2 THEN Title("Welcome & Objectives", 0)
        ELSE IF k = 2 * n + 3 THEN Title("Thank You & Q/A", 0)
        ELSE IF k % 2 = 1 THEN Title("Question", (k - 1) \div 2)
        ELSE Title("Solution for Question", (k - 2) \div 2)]

IsPrefix(a, b) == Len(a) <= Len(b) /\ a = SubSeq(b, 1, Len(a))

\* C1: for N >= 0 question images the deck create_presentation builds has
\* exactly 2 + 2N + 1 slides, titled in order of addition: the title slide,
\* "Welcome & Objectives", "Question i" then "Solution for Question i" for
\* i = 1..N in input order, and "Thank You & Q/A" last; slides are only ever
\* added at the end, in that order.
C1_DeckTemplate ==
    LET n == Len(question_paths)
    IN  /\ outcome # "500" => IsPrefix(Titles(slides), ExpectedTitles(n))
        /\ output.saved =>
              /\ Len(output.slides) = 2 + 2 * n + 1
              /\ Titles(output.slides) = ExpectedTitles(n)

\* C1 witness: a deck of three questions has been saved.
C1_Witness ==
    /\ output.saved
    /\ Len(question_paths) = 3
    /\ Len(output.slides) = 9

\* The request carries no usable background upload.
BackgroundAbsent ==
    request.background = NoUpload \/ request.background.filename = <<>>

\* C3: a structural failure is a hard failure and no deck is produced: when
\* the background image is absent or the list of question images reaching
\* deck building is empty (also when every uploaded question file is rejected
\* by the extension filter), the request ends in an error and saves no deck.
C3_StructuralFailureIsHardFailure ==
    (pc = "done" /\ (BackgroundAbsent \/ question_paths = <<>>)) =>
        /\ outcome \in {"400", "500"}
        /\ ~output.saved

\* The request reached the assembly of the deck with a readable background.
AssemblyRan ==
    /\ pc = "done"
    /\ outcome # "400"
    /\ Openable(bg_path)
    /\ Len(cropped_image_paths) = Len(question_paths)

\* The image of question i cannot be placed: the upload is no image, so its
\* cropped file is the copy autocrop_image fell back to.
PlacementFails(i) == Placement(question_paths[i]).raised

\* C4: a placement failure on question i is not fatal: the slide "Question i"
\* exists with its background and its title and no content image, every later
\* slide is added in template order, and the deck is saved with the slide
\* count it has when no placement fails.
C4_PlacementFailureNotFatal ==
    LET n == Len(question_paths)
    IN  AssemblyRan =>
            /\ outcome = "result"
            /\ output.saved
            /\ Len(output.slides) = 2 + 2 * n + 1
            /\ Titles(output.slides) = ExpectedTitles(n)
            /\ \A i \in 1..n :
                  PlacementFails(i) =>
                      output.slides[2 * i + 1] =
                          <<BlankTree[1], BlankTree[2], BackgroundPic(bg_path),
                            TitleBox(Title("Question", i))>>

\* C4 witness: a deck was saved whose first question could not be placed and
\* whose second question could.
C4_Witness ==
    /\ AssemblyRan
    /\ output.saved
    /\ Len(question_paths) >= 2
    /\ PlacementFails(1)
    /\ ~PlacementFails(2)
    /\ Len(output.slides[5]) = 5

\* The content pictures of a slide.
ContentPics(tree) == SelectSeq(tree, LAMBDA e : e.role = "content")

\* What autocrop_image can leave for an input: a copy, or its crop.
ResultsOf(file) ==
    {file} \cup (IF Decodes(file) /\ file.mask # {}
                 THEN {CroppedFile(file, CropBox(file.mask, file.h, file.w, padding_app))}
                 ELSE {})

\* C8: the Nth input image becomes "Question N": images are cropped one at a
\* time in input order, all cropping is over before the first slide is added,
\* and the content image of the slide "Question i" is the cropped (or
\* copied-through) i-th input and no other input, also when the cropping of
\* another image fell back to a copy.
C8_NthImageIsQuestionN ==
    /\ \A i, j \in 1..Len(question_paths) :
          question_paths[i].id = question_paths[j].id => i = j
    /\ slides # <<>> => Len(cropped_image_paths) = Len(question_paths)
    /\ Len(cropped_image_paths) <= Len(question_paths)
    /\ \A k \in 1..Len(cropped_image_paths) :
          /\ cropped_image_paths[k] = k
          /\ pc \in {"crop", "questions"} =>
                /\ cropped_folder[k].id = question_paths[k].id
                /\ cropped_folder[k] \in ResultsOf(question_paths[k])
    /\ \A k \in 1..Len(slides) :
          LET title == TitleOf(slides[k])
              pics == ContentPics(slides[k])
          IN  /\ title.text # "Question" => pics = <<>>
              /\ title.text = "Question" =>
                    /\ title.num \in 1..Len(question_paths)
                    /\ Len(pics) <= 1
                    /\ \A p \in 1..Len(pics) :
                          /\ pics[p].image.id = question_paths[title.num].id
                          /\ pics[p].image \in ResultsOf(question_paths[title.num])

\* C8 witness: a saved deck in which the first image was copied through, the
\* second was cropped, and "Question 2" shows the crop of the second.
C8_Witness ==
    /\ output.saved
    /\ Len(question_paths) >= 2
    /\ question_paths[1].mask = {}
    /\ question_paths[2].mask # {}
    /\ Len(ContentPics(output.slides[5])) = 1
    /\ ContentPics(output.slides[5])[1].image # question_paths[2]
    /\ ContentPics(output.slides[5])[1].image.id = question_paths[2].id

\* The shapes of a slide: everything after the two group-property elements.
Shapes(tree) == SubSeq(tree, 3, Len(tree))

\* C9: on every slide, once its shapes are added, the background image is the
\* bottom-most layer: it is drawn before (behind) the title text box and the
\* content image, and nothing added later is below it.
C9_BackgroundIsBottomLayer ==
    \A k \in 1..Len(slides) :
        LET shapes == Shapes(slides[k])
        IN  shapes # <<>> =>
                /\ shapes[1].role = "background"
                /\ \A j \in 2..Len(shapes) : shapes[j].role \in {"title", "content"}
                /\ \E j \in 2..Len(shapes) : shapes[j].role = "title"

\* C9 witness: a question slide with background, title and content image is
\* in the deck.
C9_Witness ==
    \E k \in 1..Len(slides) :
        /\ Len(Shapes(slides[k])) = 3
        /\ Shapes(slides[k])[3].role = "content"

(***************************************************************************)
(* SpecScript: one run of utils/generate_ppt.py.  request is the working   *)
(* directory: whether original_questions exists, the file background.jpg   *)
(* and the *.png files of the folder in glob's order.                      *)
(***************************************************************************)
InitScript ==
    /\ pc = "validate"
    /\ request \in {[folder |-> f, background |-> b, questions |-> qs] :
                       f \in BOOLEAN, b \in {NoFile, WideImage, CorruptFile},
                       qs \in SeqsUpTo(Catalogue, MaxQ)}
    /\ request.folder \/ request.questions = <<>>
    /\ InitDeck
    /\ CropOff
    /\ FitOff

\* Step 1 of the script: the three checks that end the run with exit().
ScriptValidate ==
    /\ pc = "validate"
    /\ IF \/ ~request.folder
          \/ request.background.kind = "missing"
          \/ request.questions = <<>>
       THEN /\ outcome' = "exit"
            /\ pc' = "done"
            /\ UNCHANGED <<question_paths, bg_path>>
       ELSE /\ question_paths' = [k \in 1..Len(request.questions) |->
                                     [request.questions[k] EXCEPT !.id = k]]
            /\ bg_path' = request.background
            /\ pc' = "crop"
            /\ UNCHANGED outcome
    /\ UNCHANGED <<request, cropped_image_paths, cropped_folder, slides, output>>
    /\ UNCHANGED <<crop_vars, fit_vars>>

\* One iteration of the script's cropping loop; an exception ends the run.
ScriptCropStep ==
    /\ pc = "crop"
    /\ Len(cropped_image_paths) < Len(question_paths)
    /\ \E env \in CropEnvs :
          LET question_num == Len(cropped_image_paths) + 1
              name == cropped_file_name(question_num)
              res == autocrop_image(question_paths[question_num], env, padding_script)
          IN  IF res.raised
              THEN /\ outcome' = "crash"
                   /\ pc' = "done"
                   /\ UNCHANGED <<cropped_image_paths, cropped_folder>>
              ELSE /\ cropped_folder' = [cropped_folder EXCEPT ![name] = res.dest]
                   /\ cropped_image_paths' = Append(cropped_image_paths, name)
                   /\ UNCHANGED <<outcome, pc>>
    /\ UNCHANGED <<request, question_paths, bg_path, slides, output>>
    /\ UNCHANGED <<crop_vars, fit_vars>>

\* The slides `made` are added; the run ends with a traceback when one raises.
ScriptAddToDeck(made, next_pc) ==
    LET r == AddSlides(slides, made)
    IN  /\ slides' = r.slides
        /\ IF r.raised
           THEN outcome' = "crash" /\ pc' = "done"
           ELSE pc' = next_pc /\ UNCHANGED outcome

\* The four introductory slides.
ScriptAddIntroSlides ==
    /\ pc = "crop"
    /\ Len(cropped_image_paths) = Len(question_paths)
    /\ ScriptAddToDeck(<<add_standard_slide(TitleSlideText, bg_path),
                         add_standard_slide(Title("Welcome & Objectives", 0), bg_path),
                         add_standard_slide(Title("How to Use This Deck", 0), bg_path),
                         add_standard_slide(Title("Table of Contents", 0), bg_path)>>,
                       "questions")
    /\ UNCHANGED <<request, question_paths, bg_path, cropped_image_paths,
                   cropped_folder, output>>
    /\ UNCHANGED <<crop_vars, fit_vars>>

\* One iteration of the loop over range(num_questions_found).
ScriptAddQuestionSlides ==
    /\ pc = "questions"
    /\ QuestionsAdded(slides) < Len(question_paths)
    /\ LET question_num == QuestionsAdded(slides) + 1
           cropped_img_path == cropped_file_name(question_num)
       IN  ScriptAddToDeck(script_question_slides(question_num,
                                                  cropped_folder[cropped_img_path], bg_path),
                           "questions")
    /\ UNCHANGED <<request, question_paths, bg_path, cropped_image_paths,
                   cropped_folder, output>>
    /\ UNCHANGED <<crop_vars, fit_vars>>

\* The three concluding slides and prs.save.
ScriptAddClosingAndSave ==
    /\ pc = "questions"
    /\ QuestionsAdded(slides) = Len(question_paths)
    /\ LET r == AddSlides(slides,
                          <<add_standard_slide(Title("End of Problem Set", 0), bg_path),
                            add_standard_slide(Title("Key Takeaways & Formulas", 0), bg_path),
                            add_standard_slide(Title("Thank You & Q/A", 0), bg_path)>>)
       IN  /\ slides' = r.slides
           /\ pc' = "done"
           /\ IF r.raised
              THEN outcome' = "crash" /\ UNCHANGED output
              ELSE outcome' = "saved" /\ output' = [saved |-> TRUE, slides |-> r.slides]
    /\ UNCHANGED <<request, question_paths, bg_path, cropped_image_paths, cropped_folder>>
    /\ UNCHANGED <<crop_vars, fit_vars>>

NextScript ==
    \/ ScriptValidate
    \/ ScriptCropStep
    \/ ScriptAddIntroSlides
    \/ ScriptAddQuestionSlides
    \/ ScriptAddClosingAndSave

SpecScript == InitScript /\ [][NextScript]_vars

\* The titles of the script's template for n questions, in order.
ScriptTitles(n) ==
    [k \in 1..(3 * n + 7) |->
        IF k = 1 THEN Title("Advanced Problems in Functions and Calculus\n\nA Practice Set", 0)
        ELSE IF k = 2 THEN Title("Welcome & Objectives", 0)
        ELSE IF k = 3 THEN Title("How to Use This Deck", 0)
        ELSE IF k = 4 THEN Title("Table of Contents", 0)
        ELSE IF k = 3 * n + 5 THEN Title("End of Problem Set", 0)
        ELSE IF k = 3 * n + 6 THEN Title("Key Takeaways & Formulas", 0)
        ELSE IF k = 3 * n + 7 THEN Title("Thank You & Q/A", 0)
        ELSE IF (k - 5) % 3 = 0 THEN Title("Question", (k - 5) \div 3 + 1)
        ELSE IF (k - 5) % 3 = 1
        THEN TitleSuffixed("Solution for Question", (k - 5) \div 3 + 1, " (Part 1)")
        ELSE TitleSuffixed("Solution for Question", (k - 5) \div 3 + 1, " (Part 2)")]

====
